---- MODULE Spec2Model ----
(***************************************************************************)
(* Model of the tenant-scoped forwarding registry                          *)
(* (pkg/virtual/framework/forwardingregistry/store.go): the Store adapter  *)
(* that forwards Get, List, Watch and Update to a dynamic backing client,  *)
(* narrows every call by a fixed label scope, ties watches to a stop       *)
(* channel and retries patch updates on version conflicts.                 *)
(***************************************************************************)
EXTENDS Integers, Sequences, FiniteSets, TLC

(***************************************************************************)
(* Bounds of the model.                                                    *)
(***************************************************************************)
\* largest value of patchConflictRetryBackoff.Steps the model constructs
MaxSteps == 3
\* largest resourceVersion the backing store hands out
MaxRV == 4

(***************************************************************************)
(* Values.                                                                 *)
(***************************************************************************)
\* Go's nil (no object, no error, nil map, no stream)
Nil == [nil |-> TRUE]

\* the empty string; a label value may be empty
Empty == ""

\* the names of the objects of the backing store
Names == {"x", "y"}

\* Go maps map[string]string that are not nil: functions from some keys to values
NoLabels == [k \in {} |-> Empty]
EnvLabel(v) == [k \in {"env"} |-> v]
EnvTierLabels(v, w) == [k \in {"env", "tier"} |-> IF k = "env" THEN v ELSE w]

\* the label maps objects of the backing store carry
ObjectLabels ==
    {NoLabels, EnvLabel(Empty), EnvLabel("prod"), EnvLabel("dev"),
     EnvTierLabels("prod", "db")}

\* the label scopes an adapter is constructed with (labelSelector); nil is allowed
LabelScopes ==
    {Nil, NoLabels, EnvLabel("prod"), EnvLabel(Empty), EnvTierLabels("prod", "db")}

\* len(m) of a Go map: 0 for nil
MapLen(m) == IF m = Nil THEN 0 ELSE Cardinality(DOMAIN m)

\* the keys a Go range over the map visits: none for nil
MapKeys(m) == IF m = Nil THEN {} ELSE DOMAIN m

\* m[k] of a Go map: the zero value "" when the key is missing or the map is nil
MapIndex(m, k) == IF m # Nil /\ k \in DOMAIN m THEN m[k] ELSE Empty

(***************************************************************************)
(* Strings are sequences of tokens; concatenation is \o, and the empty     *)
(* string contributes no token.                                            *)
(***************************************************************************)
Comma == ","
Eq == "="
Str(v) == IF v = Empty THEN << >> ELSE << v >>

\* fmt.Sprintf("%s=%s", k, v)
SprintfKV(k, v) == Str(k) \o << Eq >> \o Str(v)

\* all orders in which a range over a set of keys may visit them
Orders(keys) ==
    {o \in [1..Cardinality(keys) -> keys] : \A i, j \in DOMAIN o : i # j => o[i] # o[j]}

RECURSIVE toExpressionLoop(_, _, _)
toExpressionLoop(labelSelect, order, expr) ==
    IF order = << >> THEN expr
    ELSE LET k == Head(order)
             sep == IF expr # << >> THEN << Comma >> ELSE << >>
         IN toExpressionLoop(labelSelect, Tail(order),
                             expr \o sep \o SprintfKV(k, labelSelect[k]))

\* toExpression giving the empty string for every label scope
toExpressionEmpty(labelSelect, order) == << >>

\* toExpression, with the order in which the range visits the map's keys
toExpression(labelSelect, order) ==
    IF MapLen(labelSelect) = 0 THEN << >>
    ELSE toExpressionLoop(labelSelect, order, << >>)

\* matches, reading a missing label as Go does: the zero value ""
matches(labelSelector, labels) ==
    IF labelSelector = Nil THEN TRUE
    ELSE \A k \in DOMAIN labelSelector : MapIndex(labels, k) = labelSelector[k]

(***************************************************************************)
(* Errors.                                                                 *)
(***************************************************************************)
\* kerrors.NewNotFound(qualifiedResource, name)
NewNotFound(gr, name) == [reason |-> "NotFound", gr |-> gr, name |-> name]

\* the backing store's version-conflict error (kerrors.IsConflict holds of it)
NewConflict(gr, name) == [reason |-> "Conflict", gr |-> gr, name |-> name]

\* kerrors.NewInvalid(groupKind, name, errs)
NewInvalid(gk, name) == [reason |-> "Invalid", gk |-> gk, name |-> name]

\* any other failure of a backing call (network, server, cancelled context)
ServerError == [reason |-> "InternalError"]

\* the backing server's answer to a label selector it cannot parse
BadRequest == [reason |-> "BadRequest"]

\* the error of genericapirequest.ValidClusterFrom
ClusterError == [reason |-> "NoCluster"]

\* fmt.Errorf("there should be a Namespace context in a request ...")
NamespaceError(resource) == [reason |-> "NoNamespace", resource |-> resource]

\* fmt.Errorf("not an Unstructured: %#v", obj)
NotUnstructuredError == [reason |-> "NotUnstructured"]

\* an error of the caller's objInfo.UpdatedObject
TransformError == [reason |-> "TransformFailed"]

\* an error of the caller's updateValidation
HookError == [reason |-> "ValidationHookFailed"]

IsConflict(err) == err # Nil /\ err.reason = "Conflict"

(***************************************************************************)
(* The adapter and the request context.                                    *)
(***************************************************************************)
Resource == [group |-> "example.dev", version |-> "v1", resource |-> "widgets"]
GroupResource(gvr) == [group |-> gvr.group, resource |-> gvr.resource]
GroupKind == [group |-> "example.dev", kind |-> "Widget"]

\* logicalcluster.Wildcard
Wildcard == "*"

\* the request info a context carries: none, or the verb of the request
RequestInfos == {Nil, [verb |-> "patch"], [verb |-> "update"]}

\* the Store as its constructor leaves it: DefaultQualifiedResource is the
\* group and resource of the resource coordinate
NewStorage(resource, namespaceScoped, labelSelector, steps) ==
    [resource |-> resource,
     DefaultQualifiedResource |-> GroupResource(resource),
     namespaceScoped |-> namespaceScoped,
     subResources |-> << >>,
     patchConflictRetryBackoff |-> [Steps |-> steps],
     labelSelector |-> labelSelector]

VARIABLES
    s,              \* the Store (the adapter's fields)
    stopWatchesCh,  \* "open" or "closed"
    store,          \* the backing store: name -> object or Nil
    nextRV,         \* the resourceVersion the backing store gives the next write
    ret,            \* the last call of Get, List or Watch: its return and backing calls
    watches,        \* the Watch calls: watcher -> the call's position and contexts
    upd             \* the Update calls: updater -> the call's position and locals

\* genericapirequest.ValidClusterFrom
ValidClusterFrom(ctx) ==
    IF ctx.cluster = Nil THEN [cluster |-> Nil, err |-> ClusterError]
    ELSE IF ctx.cluster.name = Empty /\ ~ctx.cluster.wildcard
         THEN [cluster |-> Nil, err |-> ClusterError]
         ELSE [cluster |-> ctx.cluster, err |-> Nil]

\* getClientResource addressing one tenant whatever the context carries
getClientResourceFixedTenant(ctx) ==
    LET c == ValidClusterFrom(ctx) IN
    IF c.err # Nil THEN [delegate |-> Nil, err |-> c.err]
    ELSE IF s.namespaceScoped /\ ctx.namespace = Nil
         THEN [delegate |-> Nil, err |-> NamespaceError(s.resource)]
         ELSE [delegate |-> [cluster |-> "t1", resource |-> s.resource,
                             namespace |-> IF s.namespaceScoped THEN ctx.namespace.name
                                           ELSE Empty],
               err |-> Nil]

\* Store.getClientResource: the backing endpoint of the request, or an error
getClientResource(ctx) ==
    LET c == ValidClusterFrom(ctx) IN
    IF c.err # Nil THEN [delegate |-> Nil, err |-> c.err]
    ELSE LET clusterName == IF c.cluster.wildcard THEN Wildcard ELSE c.cluster.name IN
         IF s.namespaceScoped
         THEN IF ctx.namespace # Nil
              THEN [delegate |-> [cluster |-> clusterName, resource |-> s.resource,
                                  namespace |-> ctx.namespace.name],
                    err |-> Nil]
              ELSE [delegate |-> Nil, err |-> NamespaceError(s.resource)]
         ELSE [delegate |-> [cluster |-> clusterName, resource |-> s.resource,
                             namespace |-> Empty],
               err |-> Nil]

(***************************************************************************)
(* The backing dynamic client.  A call may fail for a reason of its own    *)
(* (fault); otherwise it answers from the store.                           *)
(***************************************************************************)
Faults == {Nil, ServerError}

Object(name, labels, rv, patched) ==
    [name |-> name, labels |-> labels, rv |-> rv, patched |-> patched]

\* delegate.Get(ctx, name, options, subResources...)
BackingGet(st, delegate, name, fault) ==
    IF fault # Nil THEN [obj |-> Nil, err |-> fault]
    ELSE IF st[name] = Nil
         THEN [obj |-> Nil, err |-> NewNotFound(GroupResource(delegate.resource), name)]
         ELSE [obj |-> st[name], err |-> Nil]

\* Store.Get on backing-store content st: the object or the error returned,
\* and the backing calls made
StoreGet(st, ctx, name, fault) ==
    LET d == getClientResource(ctx) IN
    IF d.err # Nil THEN [obj |-> Nil, err |-> d.err, calls |-> << >>]
    ELSE LET g == BackingGet(st, d.delegate, name, fault)
             call == [op |-> "Get", delegate |-> d.delegate, name |-> name, reply |-> g]
         IN IF g.err # Nil THEN [obj |-> Nil, err |-> g.err, calls |-> << call >>]
            ELSE IF ~matches(s.labelSelector, g.obj.labels)
                 THEN [obj |-> Nil, err |-> NewNotFound(s.DefaultQualifiedResource, name),
                       calls |-> << call >>]
                 ELSE [obj |-> g.obj, err |-> Nil, calls |-> << call >>]

\* Store.Get
Get(ctx, name, fault) ==
    /\ ret' = [op |-> "Get", ctx |-> ctx, name |-> name] @@ StoreGet(store, ctx, name, fault)
    /\ UNCHANGED << s, stopWatchesCh, store, nextRV, watches, upd >>

(***************************************************************************)
(* Label selectors: the caller's parsed selector, its string form, and the *)
(* backing server's reading of the string it is sent.                      *)
(***************************************************************************)
Requirement(k, v) == [key |-> k, value |-> v]

\* the selectors a caller passes in ListOptions.LabelSelector (parsed requirements)
CallerSelectors ==
    {<< >>,
     << Requirement("tier", "db") >>,
     << Requirement("env", "dev") >>,
     << Requirement("env", "prod"), Requirement("tier", "db") >>}

\* Convert_internalversion_ListOptions_To_v1_ListOptions: the selector's string,
\* its requirements joined by commas
RECURSIVE SelectorString(_)
SelectorString(reqs) ==
    IF reqs = << >> THEN << >>
    ELSE SprintfKV(Head(reqs).key, Head(reqs).value)
         \o (IF Tail(reqs) = << >> THEN << >> ELSE << Comma >>)
         \o SelectorString(Tail(reqs))

\* the clauses of a selector string: its pieces between commas
RECURSIVE SplitClauses(_, _)
SplitClauses(str, clause) ==
    IF str = << >> THEN << clause >>
    ELSE IF Head(str) = Comma
         THEN << clause >> \o SplitClauses(Tail(str), << >>)
         ELSE SplitClauses(Tail(str), Append(clause, Head(str)))

Clauses(str) == SplitClauses(str, << >>)

\* a clause the server accepts: key=value or key= (an empty value)
WellFormedClause(c) ==
    \/ Len(c) = 3 /\ c[1] \notin {Eq, Comma} /\ c[2] = Eq /\ c[3] \notin {Eq, Comma}
    \/ Len(c) = 2 /\ c[1] \notin {Eq, Comma} /\ c[2] = Eq

ClauseRequirement(c) == Requirement(c[1], IF Len(c) = 3 THEN c[3] ELSE Empty)

\* labels.Parse on the server: the empty string selects everything; an empty
\* clause (a leading, trailing or doubled comma) is a parse error
ParseSelector(str) ==
    IF str = << >> THEN [ok |-> TRUE, reqs |-> {}]
    ELSE LET cs == Clauses(str) IN
         IF \A i \in DOMAIN cs : WellFormedClause(cs[i])
         THEN [ok |-> TRUE, reqs |-> {ClauseRequirement(cs[i]) : i \in DOMAIN cs}]
         ELSE [ok |-> FALSE, reqs |-> {}]

\* the server's match of one requirement: the label is present with that value
RequirementMatches(r, labels) == r.key \in DOMAIN labels /\ labels[r.key] = r.value

\* delegate.List(ctx, options)
BackingList(st, delegate, selector, fault) ==
    IF fault # Nil THEN [obj |-> Nil, err |-> fault]
    ELSE LET p == ParseSelector(selector) IN
         IF ~p.ok THEN [obj |-> Nil, err |-> BadRequest]
         ELSE [obj |-> [items |-> {st[n] : n \in {m \in Names : st[m] # Nil /\
                                     \A r \in p.reqs : RequirementMatches(r, st[m].labels)}}],
               err |-> Nil]

\* CombinedSelector leaving the label scope out when the caller gave a selector
CombinedSelectorCallerOnly(callerSelector, order) ==
    IF Len(callerSelector) = 0
    THEN toExpression(s.labelSelector, order)
    ELSE callerSelector

\* the selector List and Watch send: the caller's, then the label scope's clauses
CombinedSelector(callerSelector, order) ==
    IF Len(callerSelector) = 0
    THEN toExpression(s.labelSelector, order)
    ELSE callerSelector \o << Comma >> \o toExpression(s.labelSelector, order)

\* Store.List on backing-store content st
StoreList(st, ctx, options, order, fault) ==
    LET v1LabelSelector == SelectorString(options.LabelSelector)
        d == getClientResource(ctx)
    IN IF d.err # Nil THEN [obj |-> Nil, err |-> d.err, calls |-> << >>]
       ELSE LET selector == CombinedSelector(v1LabelSelector, order)
                l == BackingList(st, d.delegate, selector, fault)
            IN [obj |-> l.obj, err |-> l.err,
                calls |-> << [op |-> "List", delegate |-> d.delegate,
                              selector |-> selector, reply |-> l] >>]

\* Store.List
List(ctx, options, order, fault) ==
    /\ ret' = [op |-> "List", ctx |-> ctx, options |-> options]
                 @@ StoreList(store, ctx, options, order, fault)
    /\ UNCHANGED << s, stopWatchesCh, store, nextRV, watches, upd >>

(***************************************************************************)
(* Update.  doUpdate reads through Store.Get, applies the caller's         *)
(* transform, checks and validates the result and writes it; a patch       *)
(* request runs doUpdate under retry.RetryOnConflict.                      *)
(***************************************************************************)
Updaters == {"u1", "u2"}

\* what the caller's objInfo.UpdatedObject does: patch the object it is given,
\* fail, or return an object that is not an *unstructured.Unstructured
ObjInfos == {"patch", "fail", "other"}

IdleUpdate ==
    [pc |-> "idle", ctx |-> Nil, name |-> Empty, objInfo |-> "patch",
     forceAllowCreate |-> FALSE, delegate |-> Nil, retry |-> FALSE, steps |-> 0,
     attempts |-> 0, reads |-> 0, writes |-> 0, readAttempt |-> 0,
     seen |-> Nil, wrote |-> Nil, errs |-> << >>, oldObj |-> Nil, obj |-> Nil, overwritten |-> Nil,
     result |-> Nil, created |-> FALSE, err |-> Nil, trace |-> << >>, addressed |-> {}]

\* the Update calls in progress; each will need a resourceVersion for its write
InProgress == {u \in Updaters : upd[u].pc \in {"read", "modify", "write"}}

\* a backing call an Update made: the operation and the endpoint it went to (a
\* record kept for the properties)
Addressed(op, delegate) == [op |-> op, delegate |-> delegate]

\* BackingUpdate accepting a write whatever resourceVersion it carries
BackingUpdateNoVersionCheck(st, delegate, obj, rv, fault) ==
    IF fault # Nil THEN [obj |-> Nil, err |-> fault]
    ELSE IF st[obj.name] = Nil
         THEN [obj |-> Nil, err |-> NewNotFound(GroupResource(delegate.resource), obj.name)]
         ELSE [obj |-> [obj EXCEPT !.rv = rv], err |-> Nil]

\* delegate.Update(ctx, obj, options, subResources...): the store rejects a write
\* of a missing object and a write whose resourceVersion is stale
BackingUpdate(st, delegate, obj, rv, fault) ==
    IF fault # Nil THEN [obj |-> Nil, err |-> fault]
    ELSE IF st[obj.name] = Nil
         THEN [obj |-> Nil, err |-> NewNotFound(GroupResource(delegate.resource), obj.name)]
         ELSE IF st[obj.name].rv # obj.rv
              THEN [obj |-> Nil,
                    err |-> NewConflict(GroupResource(delegate.resource), obj.name)]
              ELSE [obj |-> [obj EXCEPT !.rv = rv], err |-> Nil]

\* one step of an attempt of doUpdate and whether it succeeded (a record kept for
\* the properties)
Stage(step, ok) == [step |-> step, ok |-> ok]

\* the errors of the attempts so far, in order (a record kept for the properties)
Failed(r, err) == [r EXCEPT !.errs = Append(r.errs, err)]

\* AttemptFailed retrying a conflict whatever the request's verb
AttemptFailedAnyVerb(r, err) ==
    IF IsConflict(err) /\ r.steps # 1
    THEN [r EXCEPT !.pc = "read", !.steps = r.steps - 1, !.attempts = r.attempts + 1,
                   !.result = Nil]
    ELSE [r EXCEPT !.pc = "done", !.result = Nil, !.err = err]

\* AttemptFailed retrying a conflict without looking at the steps left
AttemptFailedUnbounded(r, err) ==
    IF r.retry /\ IsConflict(err)
    THEN [r EXCEPT !.pc = "read", !.steps = r.steps - 1, !.attempts = r.attempts + 1,
                   !.result = Nil]
    ELSE [r EXCEPT !.pc = "done", !.result = Nil, !.err = err]

\* AttemptFailed retrying every error of a patch
AttemptFailedAnyError(r, err) ==
    IF r.retry /\ r.steps # 1
    THEN [r EXCEPT !.pc = "read", !.steps = r.steps - 1, !.attempts = r.attempts + 1,
                   !.result = Nil]
    ELSE [r EXCEPT !.pc = "done", !.result = Nil, !.err = err]

\* retry.RetryOnConflict around a failed doUpdate, and the plain return of the
\* non-patch path: the Update's locals after an attempt failed with err
AttemptFailed(r, err) ==
    IF r.retry /\ IsConflict(err) /\ r.steps # 1
    THEN [r EXCEPT !.pc = "read", !.steps = r.steps - 1, !.attempts = r.attempts + 1,
                   !.result = Nil]
    ELSE [r EXCEPT !.pc = "done", !.result = Nil, !.err = err]

\* Update spending the adapter's own backoff: a patch leaves one step less in it
UpdateConsumingBackoff(u, ctx, name, objInfo, forceAllowCreate) ==
    /\ upd[u].pc = "idle"
    /\ nextRV + Cardinality(InProgress) <= MaxRV
    /\ LET d == getClientResource(ctx)
           r == [upd[u] EXCEPT !.ctx = ctx, !.name = name, !.objInfo = objInfo,
                               !.forceAllowCreate = forceAllowCreate]
           patch == ctx.requestInfo # Nil /\ ctx.requestInfo.verb = "patch"
           steps == s.patchConflictRetryBackoff.Steps
       IN /\ upd' = [upd EXCEPT ![u] =
                 IF d.err # Nil THEN [r EXCEPT !.pc = "done", !.err = d.err]
                 ELSE IF patch /\ ~(steps > 0)
                      THEN [r EXCEPT !.pc = "done", !.delegate = d.delegate, !.retry = TRUE]
                      ELSE [r EXCEPT !.pc = "read", !.delegate = d.delegate, !.retry = patch,
                                     !.steps = IF patch THEN steps ELSE 0,
                                     !.attempts = 1]]
          /\ s' = IF d.err = Nil /\ patch /\ steps > 0
                  THEN [s EXCEPT !.patchConflictRetryBackoff.Steps = steps - 1]
                  ELSE s
    /\ UNCHANGED << stopWatchesCh, store, nextRV, ret, watches >>

\* Store.Update up to the first doUpdate: resolve the endpoint and pick the path
Update(u, ctx, name, objInfo, forceAllowCreate) ==
    /\ upd[u].pc = "idle"
    /\ nextRV + Cardinality(InProgress) <= MaxRV
    /\ LET d == getClientResource(ctx)
           r == [upd[u] EXCEPT !.ctx = ctx, !.name = name, !.objInfo = objInfo,
                               !.forceAllowCreate = forceAllowCreate]
           patch == ctx.requestInfo # Nil /\ ctx.requestInfo.verb = "patch"
           steps == s.patchConflictRetryBackoff.Steps
       IN upd' = [upd EXCEPT ![u] =
              IF d.err # Nil THEN [r EXCEPT !.pc = "done", !.err = d.err]
              ELSE IF patch /\ ~(steps > 0)
                   THEN [r EXCEPT !.pc = "done", !.delegate = d.delegate, !.retry = TRUE]
                   ELSE [r EXCEPT !.pc = "read", !.delegate = d.delegate, !.retry = patch,
                                  !.steps = IF patch THEN steps ELSE 0,
                                  !.attempts = 1]]
    /\ UNCHANGED << s, stopWatchesCh, store, nextRV, ret, watches >>

\* UpdateRead reading the object once and keeping it for the later attempts
UpdateReadOnce(u, fault) ==
    /\ upd[u].pc = "read"
    /\ LET g == StoreGet(store, upd[u].ctx, upd[u].name, fault)
           r == [upd[u] EXCEPT !.reads = upd[u].reads + 1,
                               !.seen = g.calls[1].reply]
       IN upd' = [upd EXCEPT ![u] =
              IF upd[u].attempts > 1 THEN [upd[u] EXCEPT !.pc = "modify"]
              ELSE IF g.err # Nil THEN AttemptFailed(Failed(r, g.err), g.err)
              ELSE [r EXCEPT !.pc = "modify", !.oldObj = g.obj,
                             !.readAttempt = upd[u].attempts]]
    /\ UNCHANGED << s, stopWatchesCh, store, nextRV, ret, watches >>

\* doUpdate: oldObj, err := s.Get(ctx, name, &metav1.GetOptions{})
UpdateRead(u, fault) ==
    /\ upd[u].pc = "read"
    /\ LET g == StoreGet(store, upd[u].ctx, upd[u].name, fault)
           r == [upd[u] EXCEPT !.reads = upd[u].reads + 1,
                               !.seen = g.calls[1].reply,
                               !.trace = << Stage("read", g.err = Nil) >>,
                               !.addressed = @ \cup {Addressed("Get", g.calls[1].delegate)}]
       IN upd' = [upd EXCEPT ![u] =
              IF g.err # Nil THEN AttemptFailed(Failed(r, g.err), g.err)
              ELSE [r EXCEPT !.pc = "modify", !.oldObj = g.obj,
                             !.readAttempt = upd[u].attempts]]
    /\ UNCHANGED << s, stopWatchesCh, store, nextRV, ret, watches >>

\* the steps of doUpdate between its read and its write that an attempt runs, in
\* the order of the code, each with whether it succeeded; a failed step returns
ModifyStages(objInfo, errs, hookErr) ==
    IF objInfo = "fail" THEN << Stage("transform", FALSE) >>
    ELSE IF objInfo = "other"
    THEN << Stage("transform", TRUE), Stage("typecheck", FALSE) >>
    ELSE IF errs > 0
    THEN << Stage("transform", TRUE), Stage("typecheck", TRUE),
            Stage("PrepareForUpdate", TRUE), Stage("ValidateUpdate", FALSE) >>
    ELSE << Stage("transform", TRUE), Stage("typecheck", TRUE),
            Stage("PrepareForUpdate", TRUE), Stage("ValidateUpdate", TRUE),
            Stage("updateValidation", hookErr = Nil) >>

\* UpdateModify going on to the write with an object that failed the type check
UpdateModifyNoTypeCheck(u, errs, hookErr) ==
    /\ upd[u].pc = "modify"
    /\ LET r == [upd[u] EXCEPT !.trace = @ \o ModifyStages(upd[u].objInfo, errs, hookErr)]
           obj == [r.oldObj EXCEPT !.patched = TRUE]
       IN upd' = [upd EXCEPT ![u] =
              IF r.objInfo = "fail"
              THEN AttemptFailed(Failed(r, TransformError), TransformError)
              ELSE IF errs > 0
              THEN AttemptFailed(Failed(r, NewInvalid(GroupKind, obj.name)),
                                 NewInvalid(GroupKind, obj.name))
              ELSE IF hookErr # Nil THEN AttemptFailed(Failed(r, hookErr), hookErr)
              ELSE [r EXCEPT !.pc = "write", !.obj = obj]]
    /\ UNCHANGED << s, stopWatchesCh, store, nextRV, ret, watches >>

\* doUpdate: the transform, the type check, PrepareForUpdate, ValidateUpdate and
\* the caller's updateValidation; errs is the number of validation errors
UpdateModify(u, errs, hookErr) ==
    /\ upd[u].pc = "modify"
    /\ LET r == [upd[u] EXCEPT !.trace = @ \o ModifyStages(upd[u].objInfo, errs, hookErr)]
           obj == [r.oldObj EXCEPT !.patched = TRUE]
       IN upd' = [upd EXCEPT ![u] =
              IF r.objInfo = "fail"
              THEN AttemptFailed(Failed(r, TransformError), TransformError)
              ELSE IF r.objInfo = "other"
              THEN AttemptFailed(Failed(r, NotUnstructuredError), NotUnstructuredError)
              ELSE IF errs > 0
              THEN AttemptFailed(Failed(r, NewInvalid(GroupKind, obj.name)),
                                 NewInvalid(GroupKind, obj.name))
              ELSE IF hookErr # Nil THEN AttemptFailed(Failed(r, hookErr), hookErr)
              ELSE [r EXCEPT !.pc = "write", !.obj = obj]]
    /\ UNCHANGED << s, stopWatchesCh, store, nextRV, ret, watches >>

\* UpdateWrite sending the object with the version the backing store holds now
UpdateWriteLatestVersion(u, fault) ==
    /\ upd[u].pc = "write"
    /\ nextRV <= MaxRV
    /\ LET cur == store[upd[u].name]
           obj == IF cur = Nil THEN upd[u].obj ELSE [upd[u].obj EXCEPT !.rv = cur.rv]
           w == BackingUpdate(store, upd[u].delegate, obj, nextRV, fault)
           r == [upd[u] EXCEPT !.writes = upd[u].writes + 1, !.wrote = w,
                               !.trace = Append(@, Stage("write", w.err = Nil)),
                               !.addressed = @ \cup {Addressed("Update", upd[u].delegate)}]
       IN IF w.err # Nil
          THEN /\ upd' = [upd EXCEPT ![u] = AttemptFailed(Failed(r, w.err), w.err)]
               /\ UNCHANGED << store, nextRV >>
          ELSE /\ upd' = [upd EXCEPT ![u] =
                     [r EXCEPT !.pc = "done", !.result = w.obj, !.err = Nil,
                               !.overwritten = store[w.obj.name]]]
               /\ store' = [store EXCEPT ![w.obj.name] = w.obj]
               /\ nextRV' = nextRV + 1
    /\ UNCHANGED << s, stopWatchesCh, ret, watches >>

\* doUpdate: return delegate.Update(ctx, unstructuredObj, options, subResources...)
UpdateWrite(u, fault) ==
    /\ upd[u].pc = "write"
    /\ nextRV <= MaxRV
    /\ LET w == BackingUpdate(store, upd[u].delegate, upd[u].obj, nextRV, fault)
           r == [upd[u] EXCEPT !.writes = upd[u].writes + 1, !.wrote = w,
                               !.trace = Append(@, Stage("write", w.err = Nil)),
                               !.addressed = @ \cup {Addressed("Update", upd[u].delegate)}]
       IN IF w.err # Nil
          THEN /\ upd' = [upd EXCEPT ![u] = AttemptFailed(Failed(r, w.err), w.err)]
               /\ UNCHANGED << store, nextRV >>
          ELSE /\ upd' = [upd EXCEPT ![u] =
                     [r EXCEPT !.pc = "done", !.result = w.obj, !.err = Nil,
                               !.overwritten = store[w.obj.name]]]
               /\ store' = [store EXCEPT ![w.obj.name] = w.obj]
               /\ nextRV' = nextRV + 1
    /\ UNCHANGED << s, stopWatchesCh, ret, watches >>

(***************************************************************************)
(* New, NewList and ConvertToTable hand the call to a function or          *)
(* convertor the adapter was constructed with.                             *)
(***************************************************************************)
\* what a call that touches neither the backing client nor the request context
\* leaves: the value its delegate function returned
Delegated(op, obj) == [op |-> op, obj |-> obj, err |-> Nil, calls |-> << >>]

\* Store.New: return s.NewFunc()
New ==
    /\ ret' = Delegated("New", [kind |-> GroupKind.kind])
    /\ UNCHANGED << s, stopWatchesCh, store, nextRV, watches, upd >>

\* Store.NewList: return s.NewListFunc()
NewList ==
    /\ ret' = Delegated("NewList", [kind |-> GroupKind.kind, items |-> {}])
    /\ UNCHANGED << s, stopWatchesCh, store, nextRV, watches, upd >>

\* Store.ConvertToTable: return s.TableConvertor.ConvertToTable(ctx, object, tableOptions)
ConvertToTable(ctx, object) ==
    /\ ret' = Delegated("ConvertToTable", [rows |-> << object >>]) @@ [ctx |-> ctx]
    /\ UNCHANGED << s, stopWatchesCh, store, nextRV, watches, upd >>

(***************************************************************************)
(* Create, Delete and DeleteCollection are not implemented: the call       *)
(* panics before it does anything.                                         *)
(***************************************************************************)
\* the value of panic("implement me")
ImplementMe == "implement me"

\* what is left of a call that panicked: nothing returned, no backing call
Panicked(op, ctx, name) ==
    [op |-> op, ctx |-> ctx, name |-> name, returned |-> FALSE, panic |-> ImplementMe,
     obj |-> Nil, err |-> Nil, calls |-> << >>]

\* Create writing the object to the backing store and returning it
CreateForwarding(ctx, obj) ==
    /\ nextRV <= MaxRV
    /\ ret' = [op |-> "Create", ctx |-> ctx, name |-> obj.name, returned |-> TRUE,
               panic |-> Empty, obj |-> obj, err |-> Nil, calls |-> << >>]
    /\ store' = [store EXCEPT ![obj.name] = [obj EXCEPT !.rv = nextRV]]
    /\ nextRV' = nextRV + 1
    /\ UNCHANGED << s, stopWatchesCh, watches, upd >>

\* Store.Create
Create(ctx, obj) ==
    /\ ret' = Panicked("Create", ctx, obj.name)
    /\ UNCHANGED << s, stopWatchesCh, store, nextRV, watches, upd >>

\* Store.Delete
Delete(ctx, name) ==
    /\ ret' = Panicked("Delete", ctx, name)
    /\ UNCHANGED << s, stopWatchesCh, store, nextRV, watches, upd >>

\* Store.DeleteCollection
DeleteCollection(ctx, listOptions) ==
    /\ ret' = Panicked("DeleteCollection", ctx, Empty) @@ [options |-> listOptions]
    /\ UNCHANGED << s, stopWatchesCh, store, nextRV, watches, upd >>

(***************************************************************************)
(* Other clients of the backing store.                                     *)
(***************************************************************************)
ExternalPut(name, labels) ==
    /\ nextRV + Cardinality(InProgress) <= MaxRV
    /\ store' = [store EXCEPT ![name] = Object(name, labels, nextRV, FALSE)]
    /\ nextRV' = nextRV + 1
    /\ UNCHANGED << s, stopWatchesCh, ret, watches, upd >>

ExternalDelete(name) ==
    /\ store[name] # Nil
    /\ store' = [store EXCEPT ![name] = Nil]
    /\ UNCHANGED << s, stopWatchesCh, nextRV, ret, watches, upd >>

(***************************************************************************)
(* Watch.  Each call derives a cancellable context from the caller's,      *)
(* starts one goroutine that selects on stopWatchesCh and the caller's     *)
(* Done channel, and opens the backing stream with the derived context.    *)
(***************************************************************************)
Watchers == {"w1", "w2"}

\* the context was cancelled before the backing call answered
ContextCanceled == [reason |-> "ContextCanceled"]

IdleWatch ==
    [pc |-> "idle", ctxDone |-> FALSE, watchCtx |-> "none", task |-> "none",
     selectorOK |-> TRUE, afterStop |-> FALSE, cancelledBy |-> "none", err |-> Nil,
     reply |-> Nil, events |-> {}]

\* Store.Watch up to the call of delegate.Watch: resolve the endpoint, build the
\* selector, derive watchCtx from ctx, start the goroutine
Watch(w, ctx, options, order) ==
    /\ watches[w].pc = "idle"
    /\ LET v1LabelSelector == SelectorString(options.LabelSelector)
           d == getClientResource(ctx)
           selector == CombinedSelector(v1LabelSelector, order)
           parentDone == watches[w].ctxDone
       IN IF d.err # Nil
          THEN /\ watches' = [watches EXCEPT ![w].pc = "failed", ![w].err = d.err]
               /\ ret' = [op |-> "Watch", ctx |-> ctx, options |-> options, obj |-> Nil,
                          err |-> d.err, calls |-> << >>]
          ELSE /\ watches' = [watches EXCEPT
                      ![w].pc = "opening",
                      ![w].watchCtx = IF parentDone THEN "cancelled" ELSE "active",
                      ![w].cancelledBy = IF parentDone THEN "parent" ELSE "none",
                      ![w].task = "waiting",
                      ![w].selectorOK = ParseSelector(selector).ok,
                      ![w].afterStop = (stopWatchesCh = "closed")]
               /\ ret' = [op |-> "Watch", ctx |-> ctx, options |-> options, obj |-> Nil,
                          err |-> Nil,
                          calls |-> << [op |-> "Watch", delegate |-> d.delegate,
                                        selector |-> selector] >>]
    /\ UNCHANGED << s, stopWatchesCh, store, nextRV, upd >>

\* WatchReturn returning the stream-open's failure as a failure of its own
WatchReturnWrapped(w, fault) ==
    /\ watches[w].pc = "opening"
    /\ LET err == IF fault # Nil THEN fault
                  ELSE IF watches[w].watchCtx = "cancelled" THEN ContextCanceled
                  ELSE IF ~watches[w].selectorOK THEN BadRequest
                  ELSE Nil
       IN watches' = [watches EXCEPT ![w].pc = IF err = Nil THEN "open" ELSE "failed",
                                     ![w].reply = [err |-> err],
                                     ![w].err = IF err = Nil THEN Nil
                                                ELSE [reason |-> "WatchFailed"]]
    /\ UNCHANGED << s, stopWatchesCh, store, nextRV, ret, upd >>

\* delegate.Watch(watchCtx, options) answers and Store.Watch returns: the stream,
\* or the backing call's error; reply is the backing call's answer
WatchReturn(w, fault) ==
    /\ watches[w].pc = "opening"
    /\ LET err == IF fault # Nil THEN fault
                  ELSE IF watches[w].watchCtx = "cancelled" THEN ContextCanceled
                  ELSE IF ~watches[w].selectorOK THEN BadRequest
                  ELSE Nil
       IN watches' = [watches EXCEPT ![w].pc = IF err = Nil THEN "open" ELSE "failed",
                                     ![w].reply = [err |-> err],
                                     ![w].err = err]
    /\ UNCHANGED << s, stopWatchesCh, store, nextRV, ret, upd >>

\* the backing client streams an object to the watch of the last Watch call: one
\* the store holds that matches the selector that call sent
StreamEvent(w, name) ==
    /\ watches[w].pc = "open"
    /\ ret.op = "Watch" /\ Len(ret.calls) = 1
    /\ store[name] # Nil
    /\ LET p == ParseSelector(ret.calls[1].selector)
       IN p.ok /\ \A r \in p.reqs : RequirementMatches(r, store[name].labels)
    /\ watches' = [watches EXCEPT ![w].events = @ \cup {store[name]}]
    /\ UNCHANGED << s, stopWatchesCh, store, nextRV, ret, upd >>

\* the backing client ends a stream whose context is cancelled
StreamEnd(w) ==
    /\ watches[w].pc = "open"
    /\ watches[w].watchCtx = "cancelled"
    /\ watches' = [watches EXCEPT ![w].pc = "closed"]
    /\ UNCHANGED << s, stopWatchesCh, store, nextRV, ret, upd >>

\* the caller's context ends (the request is over or its client went away)
CallerDone(w) ==
    /\ ~watches[w].ctxDone
    /\ watches' = [watches EXCEPT ![w].ctxDone = TRUE]
    /\ UNCHANGED << s, stopWatchesCh, store, nextRV, ret, upd >>

\* context.WithCancel(ctx): the end of the parent cancels the derived context
PropagateCancel(w) ==
    /\ watches[w].ctxDone
    /\ watches[w].watchCtx = "active"
    /\ watches' = [watches EXCEPT ![w].watchCtx = "cancelled", ![w].cancelledBy = "parent"]
    /\ UNCHANGED << s, stopWatchesCh, store, nextRV, ret, upd >>

\* TaskSelect returning on stopWatchesCh without calling cancelFn
TaskSelectNoCancel(w, branch) ==
    /\ watches[w].task = "waiting"
    /\ \/ branch = "stopWatchesCh" /\ stopWatchesCh = "closed"
       \/ branch = "ctx.Done" /\ watches[w].ctxDone
    /\ watches' = [watches EXCEPT ![w].task = "exited"]
    /\ UNCHANGED << s, stopWatchesCh, store, nextRV, ret, upd >>

\* TaskSelect waiting for ctx.Done() alone
TaskSelectDoneOnly(w, branch) ==
    /\ watches[w].task = "waiting"
    /\ branch = "ctx.Done"
    /\ watches[w].ctxDone
    /\ watches' = [watches EXCEPT ![w].task = "exited"]
    /\ UNCHANGED << s, stopWatchesCh, store, nextRV, ret, upd >>

\* TaskSelect cancelling the caller's context as well when the stop channel closes
TaskSelectCancelsCaller(w, branch) ==
    /\ watches[w].task = "waiting"
    /\ \/ /\ branch = "stopWatchesCh"
          /\ stopWatchesCh = "closed"
          /\ watches' = [watches EXCEPT
                 ![w].task = "exited",
                 ![w].watchCtx = "cancelled",
                 ![w].ctxDone = TRUE,
                 ![w].cancelledBy = IF watches[w].watchCtx = "active" THEN "task"
                                    ELSE watches[w].cancelledBy]
       \/ /\ branch = "ctx.Done"
          /\ watches[w].ctxDone
          /\ watches' = [watches EXCEPT ![w].task = "exited"]
    /\ UNCHANGED << s, stopWatchesCh, store, nextRV, ret, upd >>

\* the goroutine's select: on stopWatchesCh it calls cancelFn, on ctx.Done() it
\* returns; when both are ready Go picks either
TaskSelect(w, branch) ==
    /\ watches[w].task = "waiting"
    /\ \/ /\ branch = "stopWatchesCh"
          /\ stopWatchesCh = "closed"
          /\ watches' = [watches EXCEPT
                 ![w].task = "exited",
                 ![w].watchCtx = "cancelled",
                 ![w].cancelledBy = IF watches[w].watchCtx = "active" THEN "task"
                                    ELSE watches[w].cancelledBy]
       \/ /\ branch = "ctx.Done"
          /\ watches[w].ctxDone
          /\ watches' = [watches EXCEPT ![w].task = "exited"]
    /\ UNCHANGED << s, stopWatchesCh, store, nextRV, ret, upd >>

\* the owner of the stop channel closes it
CloseStop ==
    /\ stopWatchesCh = "open"
    /\ stopWatchesCh' = "closed"
    /\ UNCHANGED << s, store, nextRV, ret, watches, upd >>

(***************************************************************************)
(* Initial states and specifications.                                      *)
(***************************************************************************)
vars == << s, stopWatchesCh, store, nextRV, ret, watches, upd >>

\* the adapter is constructed once, for any namespace scoping, label scope and
\* retry budget
InitAdapter(nsScoped, scopes, stepsRange) ==
    \E ns \in nsScoped, scope \in scopes, steps \in stepsRange :
        s = NewStorage(Resource, ns, scope, steps)

InitCalls ==
    /\ stopWatchesCh = "open"
    /\ ret = [op |-> "none"]
    /\ watches = [w \in Watchers |-> IdleWatch]
    /\ upd = [u \in Updaters |-> IdleUpdate]

\* the backing store holds x, with any labels, or nothing
Init ==
    /\ InitAdapter(BOOLEAN, LabelScopes, 0..MaxSteps)
    /\ InitCalls
    /\ store \in [Names -> {Nil}] \cup
                 {[n \in Names |-> IF n = "x" THEN Object("x", l, 1, FALSE) ELSE Nil] :
                      l \in ObjectLabels}
    /\ nextRV = 2

Context(cluster, namespace, requestInfo) ==
    [cluster |-> cluster, namespace |-> namespace, requestInfo |-> requestInfo]
TenantCluster == [name |-> "t1", wildcard |-> FALSE]
WildcardCluster == [name |-> Empty, wildcard |-> TRUE]

\* the contexts of the reading requests: a tenant's, one without a cluster, the
\* wildcard's without a namespace
ReadContexts ==
    {Context(TenantCluster, [name |-> "ns1"], Nil),
     Context(Nil, [name |-> "ns1"], Nil),
     Context(WildcardCluster, Nil, Nil)}

\* the contexts of the updating requests: a tenant's with each request info, and
\* a patch without a cluster
UpdateContexts ==
    {Context(TenantCluster, [name |-> "ns1"], ri) : ri \in RequestInfos}
        \cup {Context(Nil, [name |-> "ns1"], [verb |-> "patch"])}

NextGet ==
    \E ctx \in ReadContexts, name \in Names, fault \in Faults : Get(ctx, name, fault)

NextList ==
    \E ctx \in ReadContexts, sel \in CallerSelectors,
       order \in Orders(MapKeys(s.labelSelector)), fault \in Faults :
        List(ctx, [LabelSelector |-> sel], order, fault)

NextExternal(names, labelSets) ==
    \/ \E name \in names, labels \in labelSets : ExternalPut(name, labels)
    \/ \E name \in names : ExternalDelete(name)

NextWatch(W) ==
    \/ \E w \in W, ctx \in ReadContexts, sel \in CallerSelectors,
          order \in Orders(MapKeys(s.labelSelector)) :
           Watch(w, ctx, [LabelSelector |-> sel], order)
    \/ \E w \in W, fault \in Faults : WatchReturn(w, fault)
    \/ \E w \in W : StreamEnd(w)
    \/ \E w \in W : CallerDone(w)
    \/ \E w \in W : PropagateCancel(w)
    \/ \E w \in W, branch \in {"stopWatchesCh", "ctx.Done"} : TaskSelect(w, branch)
    \/ CloseStop

UpdateStep(u) ==
    \/ \E fault \in Faults : UpdateRead(u, fault)
    \/ \E errs \in 0..1, hookErr \in {Nil, HookError} : UpdateModify(u, errs, hookErr)
    \/ \E fault \in Faults : UpdateWrite(u, fault)

\* the Update calls of the updaters U
NextUpdateOf(U) ==
    \/ \E u \in U, ctx \in UpdateContexts, name \in Names, objInfo \in ObjInfos,
          force \in BOOLEAN :
           Update(u, ctx, name, objInfo, force)
    \/ \E u \in U : UpdateStep(u)

NextUpdate == NextUpdateOf(Updaters)

\* the calls of the operations that are not implemented
NextUnimplemented(contexts) ==
    \/ \E ctx \in contexts, name \in Names : Create(ctx, Object(name, NoLabels, 0, FALSE))
    \/ \E ctx \in contexts, name \in Names : Delete(ctx, name)
    \/ \E ctx \in contexts : DeleteCollection(ctx, [LabelSelector |-> << >>])

\* the calls that are handed to the adapter's functions
NextDelegated(contexts) ==
    \/ New
    \/ NewList
    \/ \E ctx \in contexts, name \in Names :
           store[name] # Nil /\ ConvertToTable(ctx, store[name])

Next ==
    \/ NextGet \/ NextList \/ NextExternal(Names, ObjectLabels) \/ NextWatch(Watchers)
    \/ NextUpdate \/ NextUnimplemented(ReadContexts) \/ NextDelegated(ReadContexts)

Spec == Init /\ [][Next]_vars

(***************************************************************************)
(* Reading: Get and List against any content of the backing store, with    *)
(* one more write to follow.                                               *)
(***************************************************************************)
InitRead ==
    /\ InitAdapter(BOOLEAN, LabelScopes, {MaxSteps})
    /\ InitCalls
    /\ store \in [Names -> {Nil} \cup {Object(n, l, 1, FALSE) : n \in Names, l \in ObjectLabels}]
    /\ \A n \in Names : store[n] # Nil => store[n].name = n
    /\ nextRV = MaxRV

NextRead == NextGet \/ NextList \/ NextExternal(Names, ObjectLabels)

SpecRead == InitRead /\ [][NextRead]_vars

(***************************************************************************)
(* Updating: Update calls against a backing store other clients write.     *)
(***************************************************************************)
UpdateLabels == {NoLabels, EnvLabel(Empty), EnvLabel("prod")}

\* the adapter is namespace-scoped, its label scope is nil or requires env=prod
\* or an empty env, and the backing store holds x or nothing; other clients write x
InitUpdate ==
    /\ InitAdapter({TRUE}, {Nil, EnvLabel("prod"), EnvLabel(Empty)}, 0..MaxSteps)
    /\ InitCalls
    /\ store \in [Names -> {Nil}] \cup
                 {[n \in Names |-> IF n = "x" THEN Object("x", l, 1, FALSE) ELSE Nil] :
                      l \in UpdateLabels}
    /\ nextRV = 2

NextUpdating == NextUpdateOf({"u1"}) \/ NextExternal({"x"}, UpdateLabels)

\* a call in progress takes its next step: the backing client answers every call
\* and the caller's hooks return
SpecUpdate ==
    InitUpdate /\ [][NextUpdating]_vars /\ \A u \in Updaters : WF_vars(UpdateStep(u))

(***************************************************************************)
(* Selecting: List and one Watch, for every label scope.                   *)
(***************************************************************************)
NextSelect == NextList \/ NextWatch({"w1"})

InitSelect ==
    /\ InitAdapter(BOOLEAN, LabelScopes, {MaxSteps})
    /\ InitCalls
    /\ store = [n \in Names |-> Nil]
    /\ nextRV = 2

SpecSelect == InitSelect /\ [][NextSelect]_vars

(***************************************************************************)
(* Watching: the Watch calls, their goroutines and the stop channel.  The  *)
(* Go scheduler runs a goroutine whose select has a ready case, context    *)
(* cancellation reaches the derived context, and the backing client ends a *)
(* stream whose context is cancelled; nothing forces a caller's context to *)
(* end or the stop channel to be closed.                                   *)
(***************************************************************************)
InitWatch ==
    /\ InitAdapter(BOOLEAN, {EnvLabel("prod")}, {MaxSteps})
    /\ InitCalls
    /\ store = [n \in Names |-> Nil]
    /\ nextRV = 2

Fairness ==
    \A w \in Watchers :
        /\ WF_vars(\E branch \in {"stopWatchesCh", "ctx.Done"} : TaskSelect(w, branch))
        /\ WF_vars(PropagateCancel(w))
        /\ WF_vars(StreamEnd(w))

SpecWatch == InitWatch /\ [][NextWatch(Watchers)]_vars /\ Fairness

(***************************************************************************)
(* Resolving: every operation, once, for every tenant identity and         *)
(* namespace a request context may carry.  A context carries no cluster, a *)
(* tenant's, the wildcard's or one with an empty path; it carries no       *)
(* namespace, a named one, or the empty namespace of a request that is not *)
(* narrowed to a namespace.                                                *)
(***************************************************************************)
EmptyCluster == [name |-> Empty, wildcard |-> FALSE]

ResolveClusters == {Nil, TenantCluster, WildcardCluster, EmptyCluster}

ResolveNamespaces == {Nil, [name |-> "ns1"], [name |-> Empty]}

ResolveContexts == {Context(c, n, Nil) : c \in ResolveClusters, n \in ResolveNamespaces}

InitResolve ==
    /\ InitAdapter(BOOLEAN, {Nil}, {1})
    /\ InitCalls
    /\ store = [n \in Names |-> IF n = "x" THEN Object("x", NoLabels, 1, FALSE) ELSE Nil]
    /\ nextRV = 2

NextResolve ==
    \/ \E ctx \in ResolveContexts : Get(ctx, "x", Nil)
    \/ \E ctx \in ResolveContexts : List(ctx, [LabelSelector |-> << >>], << >>, Nil)
    \/ \E ctx \in ResolveContexts : Watch("w1", ctx, [LabelSelector |-> << >>], << >>)
    \/ \E ctx \in ResolveContexts : Update("u1", ctx, "x", "patch", FALSE)
    \/ UpdateStep("u1")
    \/ NextUnimplemented(ResolveContexts)

SpecResolve == InitResolve /\ [][NextResolve]_vars

(***************************************************************************)
(* Concurrent requests: two patch Updates of x and a Get, a List and a     *)
(* Watch, each for one of two tenants, in any interleaving.  The backing   *)
(* client answers every call.                                              *)
(***************************************************************************)
TenantContexts ==
    {Context([name |-> "t1", wildcard |-> FALSE], [name |-> "ns1"], [verb |-> "patch"]),
     Context([name |-> "t2", wildcard |-> FALSE], [name |-> "ns2"], [verb |-> "patch"])}

InitConcurrent ==
    /\ InitAdapter(BOOLEAN, {Nil}, {2})
    /\ InitCalls
    /\ store = [n \in Names |-> IF n = "x" THEN Object("x", NoLabels, 1, FALSE) ELSE Nil]
    /\ nextRV = 2

NextConcurrent ==
    \/ \E ctx \in TenantContexts : Get(ctx, "x", Nil)
    \/ \E ctx \in TenantContexts : List(ctx, [LabelSelector |-> << >>], << >>, Nil)
    \/ \E ctx \in TenantContexts : Watch("w1", ctx, [LabelSelector |-> << >>], << >>)
    \/ \E u \in Updaters, ctx \in TenantContexts : Update(u, ctx, "x", "patch", FALSE)
    \/ \E u \in Updaters : UpdateRead(u, Nil)
    \/ \E u \in Updaters : UpdateModify(u, 0, Nil)
    \/ \E u \in Updaters : UpdateWrite(u, Nil)
    \/ NextDelegated(TenantContexts)

SpecConcurrent == InitConcurrent /\ [][NextConcurrent]_vars

(***************************************************************************)
(* Failing: every operation against a backing client whose calls may fail, *)
(* with another client writing x.                                          *)
(***************************************************************************)
FailContexts ==
    {Context(TenantCluster, [name |-> "ns1"], ri) : ri \in {Nil, [verb |-> "patch"]}}
        \cup {Context(Nil, [name |-> "ns1"], Nil), Context(TenantCluster, Nil, Nil)}

FailLabels == {EnvLabel("prod"), EnvLabel("dev")}

InitFail ==
    /\ InitAdapter({TRUE}, {EnvLabel("prod")}, {2})
    /\ InitCalls
    /\ store \in [Names -> {Nil}] \cup
                 {[n \in Names |-> IF n = "x" THEN Object("x", l, 1, FALSE) ELSE Nil] :
                      l \in FailLabels}
    /\ nextRV = 2

NextFail ==
    \/ \E ctx \in FailContexts, fault \in Faults : Get(ctx, "x", fault)
    \/ \E ctx \in FailContexts, fault \in Faults :
           List(ctx, [LabelSelector |-> << >>], << "env" >>, fault)
    \/ \E ctx \in FailContexts : Watch("w1", ctx, [LabelSelector |-> << >>], << "env" >>)
    \/ \E fault \in Faults : WatchReturn("w1", fault)
    \/ \E ctx \in FailContexts, objInfo \in ObjInfos : Update("u1", ctx, "x", objInfo, FALSE)
    \/ UpdateStep("u1")
    \/ \E labels \in FailLabels : ExternalPut("x", labels)

SpecFail == InitFail /\ [][NextFail]_vars

(***************************************************************************)
(* Stopping: every operation of one tenant, a watch with its goroutine,    *)
(* and the stop channel, which its owner may close at any moment.  The     *)
(* backing client answers every call.                                      *)
(***************************************************************************)
StopContexts == {Context(TenantCluster, [name |-> "ns1"], [verb |-> "patch"])}

InitStop ==
    /\ InitAdapter({TRUE}, {EnvLabel("prod")}, {2})
    /\ InitCalls
    /\ store = [n \in Names |-> IF n = "x" THEN Object("x", EnvLabel("prod"), 1, FALSE)
                                  ELSE Nil]
    /\ nextRV = 2

NextStop ==
    \/ \E ctx \in StopContexts : Get(ctx, "x", Nil)
    \/ \E ctx \in StopContexts : List(ctx, [LabelSelector |-> << >>], << "env" >>, Nil)
    \/ NextDelegated(StopContexts)
    \/ \E ctx \in StopContexts : Watch("w1", ctx, [LabelSelector |-> << >>], << "env" >>)
    \/ WatchReturn("w1", Nil)
    \/ StreamEnd("w1")
    \/ CallerDone("w1")
    \/ PropagateCancel("w1")
    \/ \E branch \in {"stopWatchesCh", "ctx.Done"} : TaskSelect("w1", branch)
    \/ CloseStop
    \/ \E ctx \in StopContexts : Update("u1", ctx, "x", "patch", FALSE)
    \/ UpdateRead("u1", Nil)
    \/ UpdateModify("u1", 0, Nil)
    \/ UpdateWrite("u1", Nil)
    \/ ExternalPut("x", EnvLabel("prod"))

SpecStop == InitStop /\ [][NextStop]_vars

(***************************************************************************)
(* Racing: two Updates of x, patch or full, with other clients writing and *)
(* deleting x in between.  The backing client answers every call.          *)
(***************************************************************************)
RaceContexts ==
    {Context(TenantCluster, [name |-> "ns1"], ri) : ri \in {[verb |-> "patch"], [verb |-> "update"]}}

InitRace ==
    /\ InitAdapter({TRUE}, {Nil}, {2})
    /\ InitCalls
    /\ store = [n \in Names |-> IF n = "x" THEN Object("x", NoLabels, 1, FALSE) ELSE Nil]
    /\ nextRV = 2

NextRace ==
    \/ \E u \in Updaters, ctx \in RaceContexts : Update(u, ctx, "x", "patch", FALSE)
    \/ \E u \in Updaters : UpdateRead(u, Nil)
    \/ \E u \in Updaters : UpdateModify(u, 0, Nil)
    \/ \E u \in Updaters : UpdateWrite(u, Nil)
    \/ NextExternal({"x"}, {NoLabels})

SpecRace == InitRace /\ [][NextRace]_vars

(***************************************************************************)
(* Results: List and a Watch with its stream, for every label scope and    *)
(* any content of the backing store, which answers every call and returns  *)
(* exactly the objects that match the selector it is sent.                 *)
(***************************************************************************)
ResultContexts == {Context(TenantCluster, [name |-> "ns1"], Nil)}

InitResults ==
    /\ InitAdapter({TRUE}, LabelScopes, {MaxSteps})
    /\ InitCalls
    /\ store \in [Names -> {Nil} \cup {Object(n, l, 1, FALSE) : n \in Names, l \in ObjectLabels}]
    /\ \A n \in Names : store[n] # Nil => store[n].name = n
    /\ nextRV = MaxRV

NextResults ==
    \/ \E ctx \in ResultContexts, sel \in CallerSelectors,
          order \in Orders(MapKeys(s.labelSelector)) :
           List(ctx, [LabelSelector |-> sel], order, Nil)
    \/ \E ctx \in ResultContexts, sel \in CallerSelectors,
          order \in Orders(MapKeys(s.labelSelector)) :
           Watch("w1", ctx, [LabelSelector |-> sel], order)
    \/ WatchReturn("w1", Nil)
    \/ \E name \in Names : StreamEvent("w1", name)
    \/ \E labels \in {EnvLabel("prod"), EnvLabel("dev")} : ExternalPut("y", labels)

SpecResults == InitResults /\ [][NextResults]_vars

(***************************************************************************)
(* Properties.                                                             *)
(***************************************************************************)
\* an object's labels satisfy a label scope: every key of the scope is a label
\* of the object, with exactly the required value
SatisfiesScope(scope, labels) ==
    \A k \in MapKeys(scope) : k \in DOMAIN labels /\ labels[k] = scope[k]

\* a label scope that requires the empty value of some key
RequiresEmptyValue(scope) == \E k \in MapKeys(scope) : scope[k] = Empty

\* the last call was a Get that reached the backing store and found an object
GetFound == ret.op = "Get" /\ Len(ret.calls) = 1 /\ ret.calls[1].reply.obj # Nil

\* what Get returns for a name the backing store does not hold
GetOfAbsent(ctx, name) == StoreGet([n \in Names |-> Nil], ctx, name, Nil)

\* C1: Get returns an object only if its labels satisfy the label scope, and for
\* an object the backing store holds that fails the scope Get returns not-found
\* and no object.
GetRespectsLabelScope ==
    /\ (ret.op = "Get" /\ ret.obj # Nil) => SatisfiesScope(s.labelSelector, ret.obj.labels)
    /\ (GetFound /\ ~SatisfiesScope(s.labelSelector, ret.calls[1].reply.obj.labels))
           => (ret.obj = Nil /\ ret.err # Nil /\ ret.err.reason = "NotFound")

\* C1 holds of every label scope that requires no empty value.
GetRespectsNonEmptyScope == ~RequiresEmptyValue(s.labelSelector) => GetRespectsLabelScope

\* C2: what Get returns for an object that exists but fails the label scope is
\* exactly what it returns, for the same context and name, when the backing
\* store holds no object of that name: the same not-found error and no object.
HiddenExistence ==
    (GetFound /\ ~SatisfiesScope(s.labelSelector, ret.calls[1].reply.obj.labels))
        => /\ ret.err = GetOfAbsent(ret.ctx, ret.name).err
           /\ ret.obj = GetOfAbsent(ret.ctx, ret.name).obj
           /\ ret.err = NewNotFound(s.DefaultQualifiedResource, ret.name)

\* C2 holds of every label scope that requires no empty value.
HiddenExistenceNonEmptyScope == ~RequiresEmptyValue(s.labelSelector) => HiddenExistence

\* the clauses of a selector string, the empty clause apart
ClauseSet(str) == {Clauses(str)[i] : i \in DOMAIN Clauses(str)} \ {<< >>}

ScopeClauses == {SprintfKV(k, s.labelSelector[k]) : k \in MapKeys(s.labelSelector)}

CallerClauses(options) ==
    {SprintfKV(options.LabelSelector[i].key, options.LabelSelector[i].value) :
         i \in DOMAIN options.LabelSelector}

\* C3: the selector List and Watch send to the backing client holds every
\* key=value clause of the label scope and every clause of the caller's
\* selector, comma-joined, and nothing else, whether or not the caller's
\* selector is empty and whichever of List and Watch sends it.
SelectorPushDown ==
    (ret.op \in {"List", "Watch"} /\ Len(ret.calls) = 1)
        => /\ ScopeClauses \subseteq ClauseSet(ret.calls[1].selector)
           /\ CallerClauses(ret.options) \subseteq ClauseSet(ret.calls[1].selector)
           /\ ClauseSet(ret.calls[1].selector) = ScopeClauses \cup CallerClauses(ret.options)

\* a Watch sent a selector built from a caller's selector and a scope of two keys
SelectorPushDownWitness ==
    /\ ret.op = "Watch" /\ Len(ret.calls) = 1
    /\ Len(ret.options.LabelSelector) = 1
    /\ MapLen(s.labelSelector) = 2
    /\ Len(ret.calls[1].selector) = 11

\* C4: once a Watch's stream is open, the end of the caller's context or the
\* closing of the stop channel leads to the derived context being cancelled and
\* the stream ended.
WatchTermination ==
    \A w \in Watchers :
        (watches[w].pc = "open" /\ (watches[w].ctxDone \/ stopWatchesCh = "closed"))
            ~> (watches[w].watchCtx = "cancelled" /\ watches[w].pc = "closed")

\* one stream was ended by the stop channel, the other by its caller's context
WatchTerminationWitness ==
    /\ watches["w1"].pc = "closed" /\ watches["w1"].cancelledBy = "task"
    /\ watches["w2"].pc = "closed" /\ watches["w2"].cancelledBy = "parent"

\* C5: a Watch started after the stop channel was closed has its derived context
\* cancelled, by its goroutine when the caller's context has not ended, whether
\* or not the backing stream-open call has answered; and the stop channel, once
\* closed, stays closed.
WatchAfterStop ==
    /\ \A w \in Watchers :
           (watches[w].afterStop /\ watches[w].task = "waiting")
               ~> (watches[w].watchCtx = "cancelled" /\ watches[w].task = "exited")
    /\ [](\A w \in Watchers :
              (watches[w].afterStop /\ watches[w].task = "exited" /\ ~watches[w].ctxDone)
                  => (watches[w].watchCtx = "cancelled" /\ watches[w].cancelledBy = "task"))
    /\ [][stopWatchesCh = "closed" => stopWatchesCh' = "closed"]_vars

\* a Watch started after the stop channel was closed was cancelled by its
\* goroutine before the stream-open call answered, and its caller's context is live
WatchAfterStopWitness ==
    \E w \in Watchers :
        /\ watches[w].afterStop /\ watches[w].pc = "opening"
        /\ watches[w].cancelledBy = "task" /\ ~watches[w].ctxDone

\* the request is a patch: its context carries request info with the verb patch
IsPatch(ctx) == ctx.requestInfo # Nil /\ ctx.requestInfo.verb = "patch"

\* the Update call of u resolved its endpoint
Resolved(u) == upd[u].pc # "idle" /\ upd[u].delegate # Nil

Budget == s.patchConflictRetryBackoff.Steps

\* C6: an Update that is not a patch, also one without request info, runs the
\* read-modify-write once; a version conflict of its write is returned as the
\* backing store gave it, after one read and one write.
NonRetryPath ==
    \A u \in Updaters :
        (Resolved(u) /\ ~IsPatch(upd[u].ctx))
            => /\ upd[u].attempts = 1 /\ upd[u].reads <= 1 /\ upd[u].writes <= 1
               /\ upd[u].pc = "done" => upd[u].reads = 1
               /\ upd[u].errs # << >>
                      => /\ upd[u].pc = "done" /\ upd[u].err = upd[u].errs[1]
                         /\ upd[u].result = Nil
               /\ (upd[u].wrote # Nil /\ IsConflict(upd[u].wrote.err))
                      => /\ upd[u].pc = "done" /\ upd[u].err = upd[u].wrote.err
                         /\ upd[u].result = Nil
                         /\ upd[u].reads = 1 /\ upd[u].writes = 1

\* an Update without request info returned the conflict of its only write
NonRetryPathWitness ==
    \E u \in Updaters :
        /\ upd[u].pc = "done" /\ upd[u].ctx.requestInfo = Nil
        /\ IsConflict(upd[u].err) /\ upd[u].writes = 1

\* the patch Update of u returned the object its last write produced
PatchSucceeded(u) ==
    /\ upd[u].err = Nil /\ upd[u].result # Nil
    /\ upd[u].wrote.err = Nil /\ upd[u].result = upd[u].wrote.obj
    /\ upd[u].readAttempt = upd[u].attempts
    /\ upd[u].writes = upd[u].attempts

\* the patch Update of u spent its budget and returned its last conflict
PatchExhausted(u) ==
    /\ IsConflict(upd[u].err) /\ upd[u].result = Nil
    /\ upd[u].err = upd[u].wrote.err /\ upd[u].err = upd[u].errs[upd[u].attempts]
    /\ upd[u].attempts = Budget
    /\ upd[u].writes = upd[u].attempts

FreshReadPerAttempt ==
    \A u \in Updaters :
        (Resolved(u) /\ IsPatch(upd[u].ctx) /\ upd[u].attempts >= 1)
            => /\ upd[u].pc = "read"
                      => /\ upd[u].reads = upd[u].attempts - 1
                         /\ upd[u].writes = upd[u].attempts - 1
               /\ upd[u].pc \in {"modify", "write"}
                      => /\ upd[u].reads = upd[u].attempts
                         /\ upd[u].writes = upd[u].attempts - 1
                         /\ upd[u].readAttempt = upd[u].attempts
                         /\ upd[u].oldObj = upd[u].seen.obj
               /\ upd[u].pc = "write" => upd[u].obj = [upd[u].oldObj EXCEPT !.patched = TRUE]
               /\ (upd[u].pc = "done" /\ upd[u].err = Nil)
                      => /\ upd[u].reads = upd[u].attempts
                         /\ upd[u].readAttempt = upd[u].attempts
                         /\ upd[u].oldObj = upd[u].seen.obj
                         /\ upd[u].overwritten = upd[u].oldObj
                         /\ upd[u].result =
                                [upd[u].oldObj EXCEPT !.patched = TRUE, !.rv = upd[u].result.rv]

\* the backing version changed twice; with a budget of three attempts the patch
\* succeeded on the third, writing the object of the third read
FreshReadPerAttemptWitness ==
    \E u \in Updaters :
        /\ upd[u].pc = "done" /\ IsPatch(upd[u].ctx) /\ upd[u].err = Nil
        /\ Budget = 3 /\ upd[u].attempts = 3 /\ upd[u].reads = 3
        /\ upd[u].oldObj.rv = 3 /\ upd[u].result.rv = 4

\* C9: in a patch Update a failure of an attempt that is not a version conflict
\* is the last thing the call does: it is returned as it is, with no object, and
\* no read or write follows it.
NonConflictEndsRetry ==
    \A u \in Updaters :
        (Resolved(u) /\ IsPatch(upd[u].ctx))
            => \A i \in DOMAIN upd[u].errs :
                   ~IsConflict(upd[u].errs[i])
                       => /\ i = Len(upd[u].errs)
                          /\ upd[u].pc = "done"
                          /\ upd[u].err = upd[u].errs[i] /\ upd[u].result = Nil
                          /\ upd[u].attempts = i /\ upd[u].reads = i
                          /\ upd[u].writes \in {i - 1, i}

\* a patch whose first attempt met a conflict ended at the post-validation hook's
\* error in its second
NonConflictEndsRetryWitness ==
    \E u \in Updaters :
        /\ upd[u].pc = "done" /\ IsPatch(upd[u].ctx) /\ Budget = 3
        /\ Len(upd[u].errs) = 2 /\ IsConflict(upd[u].errs[1])
        /\ upd[u].err = HookError /\ upd[u].reads = 2 /\ upd[u].writes = 1

\* the last read of u's Update found no object, or one that fails the label scope
SeenInvisible(u) ==
    /\ upd[u].seen # Nil
    /\ \/ upd[u].seen.err # Nil /\ upd[u].seen.err.reason = "NotFound"
       \/ upd[u].seen.obj # Nil /\ ~SatisfiesScope(s.labelSelector, upd[u].seen.obj.labels)

\* C10: an Update whose read finds the object absent or failing the label scope
\* returns not-found without writing; Update never reports created; and no
\* write of an Update replaces an object that was absent or fails the scope.
UpdateOnlyVisible ==
    \A u \in Updaters :
        /\ upd[u].created = FALSE
        /\ SeenInvisible(u)
               => /\ upd[u].pc = "done" /\ upd[u].result = Nil
                  /\ upd[u].err # Nil /\ upd[u].err.reason = "NotFound"
                  /\ upd[u].writes = upd[u].reads - 1
        /\ (upd[u].pc = "done" /\ upd[u].err = Nil /\ upd[u].attempts >= 1)
               => /\ upd[u].overwritten # Nil
                  /\ SatisfiesScope(s.labelSelector, upd[u].overwritten.labels)

\* C10 holds of every label scope that requires no empty value.
UpdateOnlyVisibleNonEmptyScope == ~RequiresEmptyValue(s.labelSelector) => UpdateOnlyVisible

\* the steps of one attempt of doUpdate, in the order of the code
Pipeline ==
    << "read", "transform", "typecheck", "PrepareForUpdate", "ValidateUpdate",
       "updateValidation", "write" >>

\* the attempt of u that is running, or ran last, issued its backing write
WriteIssued(u) == \E i \in DOMAIN upd[u].trace : upd[u].trace[i].step = "write"

\* C11: the steps of an attempt run in the order read, transform, type check,
\* pre-update mutation hook, strategy validation, caller's post-validation hook,
\* backing write; a step runs only if every step before it succeeded, so the
\* write is issued only after all of them; and a type mismatch, validation
\* errors (one invalid error naming kind and object) or an error of the
\* post-validation hook ends the attempt with that error and no backing write.
UpdatePipelineOrder ==
    \A u \in Updaters :
        LET tr == upd[u].trace IN
        /\ Len(tr) <= Len(Pipeline)
        /\ \A i \in DOMAIN tr : tr[i].step = Pipeline[i]
        /\ \A i \in DOMAIN tr : i < Len(tr) => tr[i].ok
        /\ upd[u].pc = "write" => (Len(tr) = 6 /\ tr[6].ok)
        /\ (upd[u].pc = "done" /\ upd[u].err # Nil
               /\ upd[u].err.reason \in {"NotUnstructured", "Invalid", "ValidationHookFailed"})
              => /\ ~WriteIssued(u) /\ upd[u].result = Nil
                 /\ upd[u].writes = upd[u].attempts - 1
                 /\ ~tr[Len(tr)].ok
                 /\ tr[Len(tr)].step =
                        (CASE upd[u].err.reason = "NotUnstructured" -> "typecheck"
                           [] upd[u].err.reason = "Invalid" -> "ValidateUpdate"
                           [] OTHER -> "updateValidation")
                 /\ upd[u].err.reason = "Invalid"
                        => upd[u].err = NewInvalid(GroupKind, upd[u].name)

\* an Update whose read, transform, type check and validation succeeded ended at
\* the error of the post-validation hook, without a write
UpdatePipelineOrderWitness ==
    \E u \in Updaters :
        /\ upd[u].pc = "done" /\ upd[u].err = HookError
        /\ Len(upd[u].trace) = 6 /\ upd[u].writes = 0 /\ upd[u].reads = 1

\* the context carries no tenant identity: no cluster, or one with an empty path
\* that is not the wildcard
NoTenant(ctx) == ctx.cluster = Nil \/ (ctx.cluster.name = Empty /\ ~ctx.cluster.wildcard)

\* the resource is namespace-scoped and the context carries no namespace
NoNamespace(ctx) == ~NoTenant(ctx) /\ s.namespaceScoped /\ ctx.namespace = Nil

\* the last call was one of Get, List and Watch
ReadReturned == ret.op \in {"Get", "List", "Watch"}

\* the endpoints of the backing calls made so far: by the last Get, List or
\* Watch and by the Update calls
Endpoints ==
    (IF ReadReturned THEN {ret.calls[i].delegate : i \in DOMAIN ret.calls} ELSE {})
        \cup UNION {{a.delegate : a \in upd[u].addressed} : u \in Updaters}

\* an operation whose context carries no tenant identity, or no namespace for a
\* namespace-scoped resource, fails with the error of that case and makes no
\* backing call; a Watch that fails so starts no goroutine
ResolutionFailsWithoutCall ==
    /\ (ReadReturned /\ NoTenant(ret.ctx))
           => (ret.err = ClusterError /\ ret.obj = Nil /\ ret.calls = << >>)
    /\ (ReadReturned /\ NoNamespace(ret.ctx))
           => /\ ret.err = NamespaceError(s.resource) /\ ret.err # ClusterError
              /\ ret.obj = Nil /\ ret.calls = << >>
    /\ (ret.op = "Watch" /\ (NoTenant(ret.ctx) \/ NoNamespace(ret.ctx)))
           => \A w \in Watchers :
                  watches[w].pc # "idle"
                      => /\ watches[w].pc = "failed" /\ watches[w].err = ret.err
                         /\ watches[w].task = "none" /\ watches[w].watchCtx = "none"
    /\ \A u \in Updaters :
           /\ (upd[u].pc # "idle" /\ NoTenant(upd[u].ctx))
                  => /\ upd[u].pc = "done" /\ upd[u].err = ClusterError
                     /\ upd[u].result = Nil /\ upd[u].addressed = {}
                     /\ upd[u].reads = 0 /\ upd[u].writes = 0
           /\ (upd[u].pc # "idle" /\ NoNamespace(upd[u].ctx))
                  => /\ upd[u].pc = "done" /\ upd[u].err = NamespaceError(s.resource)
                     /\ upd[u].result = Nil /\ upd[u].addressed = {}
                     /\ upd[u].reads = 0 /\ upd[u].writes = 0

\* no backing call goes to a tenant the adapter made up
TenantNeverDefaulted == \A d \in Endpoints : d.cluster # Empty

\* no backing call for a namespace-scoped resource goes to the empty namespace
NamespaceNeverEmpty == s.namespaceScoped => \A d \in Endpoints : d.namespace # Empty

\* C12: Get, List, Watch and Update fail with an error and without a backing
\* call when the context carries no tenant identity, and with a distinct error,
\* again without a backing call, when the resource is namespace-scoped and the
\* context carries no namespace; a Watch that fails so starts no auxiliary task;
\* and no backing call goes to a defaulted tenant or to an empty namespace.
TenantResolutionErrors ==
    ResolutionFailsWithoutCall /\ TenantNeverDefaulted /\ NamespaceNeverEmpty

\* C12 but for the empty namespace: the errors of a missing tenant identity and
\* of a missing namespace, and no defaulted tenant.
TenantResolutionErrorsButEmptyNamespace == ResolutionFailsWithoutCall /\ TenantNeverDefaulted

\* C13: the all-tenants endpoint is used by List and Watch alone: no backing
\* call of a Get, and neither the read nor the write of an Update, goes to the
\* wildcard cluster, whatever tenant identity the context carries.
WildcardOnlyForListWatch ==
    /\ ret.op = "Get" => \A i \in DOMAIN ret.calls : ret.calls[i].delegate.cluster # Wildcard
    /\ \A u \in Updaters : \A a \in upd[u].addressed : a.delegate.cluster # Wildcard

\* A backing call goes to the all-tenants endpoint only for a context that
\* carries the wildcard identity.
WildcardOnlyFromWildcardContext ==
    /\ ReadReturned
           => \A i \in DOMAIN ret.calls :
                  ret.calls[i].delegate.cluster = Wildcard => ret.ctx.cluster.wildcard
    /\ \A u \in Updaters : \A a \in upd[u].addressed :
           a.delegate.cluster = Wildcard => upd[u].ctx.cluster.wildcard

\* the endpoint of a context's tenant for the adapter's resource, narrowed to the
\* context's namespace when the resource is namespace-scoped
TenantEndpoint(ctx) ==
    [cluster |-> ctx.cluster.name, resource |-> Resource,
     namespace |-> IF s.namespaceScoped THEN ctx.namespace.name ELSE Empty]

\* C14: every backing call made for a request of a concrete tenant, and of a
\* namespace when the resource is namespace-scoped, goes to exactly that
\* tenant's endpoint of the adapter's resource, narrowed to exactly that
\* namespace, however the requests of different tenants interleave: the call of
\* a Get, List or Watch, and every read and write of every Update.
TenantIsolation ==
    /\ ReadReturned
           => \A i \in DOMAIN ret.calls : ret.calls[i].delegate = TenantEndpoint(ret.ctx)
    /\ \A u \in Updaters :
           /\ \A a \in upd[u].addressed : a.delegate = TenantEndpoint(upd[u].ctx)
           /\ upd[u].delegate # Nil => upd[u].delegate = TenantEndpoint(upd[u].ctx)

\* two Updates of different tenants ran interleaved, the second having read
\* before the first wrote, while the last Get was the second tenant's
TenantIsolationWitness ==
    /\ upd["u1"].pc = "done" /\ upd["u2"].pc = "write" /\ ret.op = "Get"
    /\ upd["u1"].ctx.cluster.name = "t1" /\ upd["u2"].ctx.cluster.name = "t2"
    /\ upd["u1"].err = Nil /\ upd["u1"].writes = 1
    /\ upd["u2"].reads = 1 /\ upd["u2"].oldObj.rv = 1
    /\ ret.ctx.cluster.name = "t2" /\ Len(ret.calls) = 1

\* the Watch call of w reached the backing stream-open: it derived its context
ReachedStreamOpen(w) == watches[w].watchCtx # "none"

\* C15: when the backing Watch call fails and Store.Watch returns its error, the
\* derived context has been cancelled and the goroutine no longer waits for
\* the failed watch.
WatchReleasesContext ==
    \A w \in Watchers :
        (watches[w].pc = "failed" /\ ReachedStreamOpen(w))
            => (watches[w].watchCtx = "cancelled" /\ watches[w].task # "waiting")

\* the goroutine of w waits and neither case of its select is ready
TaskLive(w) == watches[w].task = "waiting" /\ stopWatchesCh = "open" /\ ~watches[w].ctxDone

\* w is a watch, requested or open, whose caller's context has not ended and that
\* the stop channel has not cancelled
WatchLive(w) ==
    /\ watches[w].pc \in {"opening", "open"}
    /\ ~watches[w].ctxDone /\ watches[w].cancelledBy # "task"

\* the goroutine of a Watch ends once the stop channel is closed or the caller's
\* context has ended
TaskTerminates ==
    \A w \in Watchers :
        (watches[w].task = "waiting" /\ (stopWatchesCh = "closed" \/ watches[w].ctxDone))
            ~> (watches[w].task = "exited")

\* C16: a Watch call that reaches the backing stream-open has one goroutine and
\* one that does not has none, and the goroutines that go on waiting, those for
\* which the stop channel is open and the caller's context live, are never more
\* than the watches whose caller's context has not ended and that the stop
\* channel has not cancelled.
NoTaskLeak ==
    /\ \A w \in Watchers : ReachedStreamOpen(w) <=> watches[w].task # "none"
    /\ Cardinality({w \in Watchers : TaskLive(w)})
           <= Cardinality({w \in Watchers : WatchLive(w)})

\* C16 holds of the watches whose stream-open did not fail: a goroutine that goes
\* on waiting belongs to a live watch or to a Watch call that returned an error.
NoTaskLeakButFailedWatch ==
    /\ \A w \in Watchers : ReachedStreamOpen(w) <=> watches[w].task # "none"
    /\ \A w \in Watchers : TaskLive(w) => (WatchLive(w) \/ watches[w].pc = "failed")

\* the Update calls of u and v are for the same object: the same endpoint and name
SameObject(u, v) ==
    /\ Resolved(u) /\ Resolved(v)
    /\ upd[u].delegate = upd[v].delegate /\ upd[u].name = upd[v].name

\* the attempt of u that is running has read and has not yet written
BetweenReadAndWrite(u) == upd[u].pc \in {"modify", "write"}

\* within one patch Update at most one attempt is in progress: the reads and the
\* writes made are those of the attempts before the current one and at most one
\* more, and no attempt writes before it read
OneAttemptAtATime ==
    \A u \in Updaters :
        (Resolved(u) /\ IsPatch(upd[u].ctx) /\ upd[u].attempts >= 1)
            => /\ upd[u].reads \in {upd[u].attempts - 1, upd[u].attempts}
               /\ upd[u].writes \in {upd[u].attempts - 1, upd[u].attempts}
               /\ upd[u].writes <= upd[u].reads

\* C17 as the specification states it: attempts of one patch Update do not
\* overlap, and no write of another Update of the same object through this
\* adapter falls between the read and the write of an attempt.
RetryDriverExclusive ==
    /\ []OneAttemptAtATime
    /\ [][\A u, v \in Updaters :
              (u # v /\ SameObject(u, v) /\ IsPatch(upd[u].ctx) /\ BetweenReadAndWrite(u))
                  => upd'[v].writes = upd[v].writes]_vars

\* C17: attempts of one patch Update do not overlap; a write of another Update
\* may fall between the read and the write of an attempt, and then the
\* attempt's own write is refused: a write of an Update succeeds only while the
\* backing store still holds the object that attempt read.
RetryDriverSequential ==
    /\ []OneAttemptAtATime
    /\ [][\A u \in Updaters :
              (upd[u].pc = "write" /\ upd'[u].pc = "done" /\ upd'[u].err = Nil)
                  => (store[upd[u].name] = upd[u].oldObj /\ upd[u].obj.rv = upd[u].oldObj.rv)]_vars

\* two patch Updates of the same object overlapped: the second wrote between the
\* first's read and write, the first met a conflict and succeeded on its second
\* attempt
RetryDriverSequentialWitness ==
    /\ upd["u1"].pc = "done" /\ upd["u2"].pc = "done" /\ SameObject("u1", "u2")
    /\ upd["u1"].err = Nil /\ upd["u2"].err = Nil
    /\ upd["u1"].attempts = 2 /\ IsConflict(upd["u1"].errs[1])
    /\ upd["u2"].attempts = 1 /\ upd["u2"].result.rv = 2 /\ upd["u1"].result.rv = 3

\* the last call was one of the operations that are not implemented
UnimplementedCalled == ret.op \in {"Create", "Delete", "DeleteCollection"}

\* C18: every call of Create, Delete and DeleteCollection ends in a panic: it
\* returns neither a result nor an error, makes no backing call, and leaves the
\* backing store, the adapter, the watches and the updates as they were.
UnimplementedPanics ==
    /\ [](UnimplementedCalled
              => /\ ret.panic = ImplementMe /\ ~ret.returned
                 /\ ret.obj = Nil /\ ret.err = Nil /\ ret.calls = << >>)
    /\ [][(UnimplementedCalled' /\ ret' # ret)
              => UNCHANGED << s, stopWatchesCh, store, nextRV, watches, upd >>]_vars

\* a Delete of x panicked after an Update had patched x, which is still stored
UnimplementedPanicsWitness ==
    /\ ret.op = "Delete" /\ ret.name = "x" /\ ret.ctx.cluster = TenantCluster
    /\ store["x"].patched /\ upd["u1"].pc = "done"

\* C19: matches, applied by Get to the adapter's label scope and the object the
\* backing store returned, holds exactly when the object carries every key of
\* the scope with the required value, so that an object lacking a required key
\* never matches, whatever value is required, the empty string too; and a nil
\* or empty scope matches every object.
MatchesIffSatisfies ==
    GetFound =>
        LET labels == ret.calls[1].reply.obj.labels IN
        /\ matches(s.labelSelector, labels) <=> SatisfiesScope(s.labelSelector, labels)
        /\ (\E k \in MapKeys(s.labelSelector) : k \notin DOMAIN labels)
               => ~matches(s.labelSelector, labels)
        /\ MapLen(s.labelSelector) = 0 => matches(s.labelSelector, labels)

\* C19 holds of every label scope that requires no empty value.
MatchesIffSatisfiesNonEmptyScope == ~RequiresEmptyValue(s.labelSelector) => MatchesIffSatisfies

\* the errors the adapter returns that are neither a backing call's nor one of
\* the caller's transform or post-validation hook
ResolutionErrorReasons == {"NoCluster", "NoNamespace"}

\* the last step of the attempt of u that ran last, and whether that attempt failed
LastStage(u) == upd[u].trace[Len(upd[u].trace)]
LastAttemptFailed(u) == upd[u].trace # << >> /\ ~LastStage(u).ok

\* the error err that Get returned, or that the read of an Update met, with
\* backing answer reply, is the adapter's not-found for an object failing the scope
ScopeNotFound(err, reply, name) ==
    /\ reply.obj # Nil /\ ~matches(s.labelSelector, reply.obj.labels)
    /\ err = NewNotFound(s.DefaultQualifiedResource, name)

\* Get, List and Watch return the failure of their backing call as it is, with no
\* object; any other error they return is a resolution error, made before any
\* backing call, or Get's not-found for an object that fails the label scope
ReadErrorsPropagate ==
    /\ (ret.op \in {"Get", "List"} /\ Len(ret.calls) = 1)
           => /\ ret.calls[1].reply.err # Nil
                     => (ret.err = ret.calls[1].reply.err /\ ret.obj = Nil)
              /\ (ret.err # Nil /\ ret.calls[1].reply.err = Nil)
                     => /\ ret.op = "Get" /\ ret.obj = Nil
                        /\ ScopeNotFound(ret.err, ret.calls[1].reply, ret.name)
    /\ (ReadReturned /\ ret.calls = << >>)
           => (ret.err # Nil /\ ret.err.reason \in ResolutionErrorReasons)
    /\ \A w \in Watchers :
           /\ watches[w].reply # Nil
                  => /\ watches[w].err = watches[w].reply.err
                     /\ watches[w].pc = "failed" <=> watches[w].reply.err # Nil
           /\ (watches[w].pc = "failed" /\ watches[w].reply = Nil)
                  => watches[w].err.reason \in ResolutionErrorReasons

\* the error an Update returned is the failure of a backing call, the caller's
\* transform or hook error, or one the adapter makes: a resolution error, the
\* not-found of the label scope, the type mismatch, the invalid error
UpdateErrorOrigin(u) ==
    LET e == upd[u].err IN
    \/ upd[u].attempts = 0 /\ e.reason \in ResolutionErrorReasons
    \/ LastStage(u).step = "read" /\ e = upd[u].seen.err
    \/ LastStage(u).step = "read" /\ upd[u].seen.err = Nil
          /\ ScopeNotFound(e, upd[u].seen, upd[u].name)
    \/ LastStage(u).step = "transform" /\ e = TransformError
    \/ LastStage(u).step = "typecheck" /\ e = NotUnstructuredError
    \/ LastStage(u).step = "ValidateUpdate" /\ e = NewInvalid(GroupKind, upd[u].name)
    \/ LastStage(u).step = "updateValidation" /\ e = HookError
    \/ LastStage(u).step = "write" /\ e = upd[u].wrote.err

\* C20 as the specification states it: every failure of a backing call is
\* returned as it is, and no operation reports success after a backing call
\* of its own failed; an Update that met an error in any attempt returns the
\* error.
ErrorPropagationEveryFailure ==
    /\ ReadErrorsPropagate
    /\ \A u \in Updaters :
           (upd[u].pc = "done" /\ upd[u].errs # << >>)
               => /\ upd[u].err = upd[u].errs[Len(upd[u].errs)] /\ upd[u].result = Nil
                  /\ UpdateErrorOrigin(u)

\* C20: the failure of the backing call of a Get, List or Watch, and of the read
\* and the write of the last attempt of an Update, is returned as it is, with no
\* object, and an operation reports success only if its last backing call
\* succeeded; the failures that are not returned are the version conflicts a
\* patch Update retried; every other error returned is the caller's transform
\* or hook error or one the adapter makes: a resolution error, the not-found
\* of the label scope, the type mismatch, the invalid error.
ErrorPropagation ==
    /\ ReadErrorsPropagate
    /\ \A u \in Updaters :
           upd[u].pc = "done"
               => /\ LastAttemptFailed(u)
                         => /\ upd[u].err # Nil /\ upd[u].result = Nil
                            /\ upd[u].err = upd[u].errs[Len(upd[u].errs)]
                  /\ upd[u].err # Nil => UpdateErrorOrigin(u)
                  /\ (upd[u].err = Nil /\ upd[u].attempts >= 1)
                         => /\ LastStage(u) = Stage("write", TRUE)
                            /\ upd[u].wrote.err = Nil /\ upd[u].result = upd[u].wrote.obj
                  /\ \A i \in DOMAIN upd[u].errs :
                         i < Len(upd[u].errs)
                             => (IsConflict(upd[u].errs[i]) /\ IsPatch(upd[u].ctx))

\* an Update returned the server's failure of its write while the last Watch had
\* failed with the server's failure of its stream-open
ErrorPropagationWitness ==
    /\ upd["u1"].pc = "done" /\ upd["u1"].err = ServerError /\ upd["u1"].writes = 2
    /\ IsConflict(upd["u1"].errs[1])
    /\ watches["w1"].pc = "failed" /\ watches["w1"].reply = [err |-> ServerError]

\* a call began or went on in this step: the record of a call changed
CallStepped == ret' # ret \/ watches' # watches \/ upd' # upd

\* C21: no call of New, NewList, Get, List, Watch, Update or ConvertToTable, in
\* any order and interleaving, changes the adapter's resource coordinate,
\* sub-resource list, label scope or backoff policy, or the stop channel; and
\* no call leaves anything behind that a later call sees: a Get or List
\* returns what its context, its arguments and the backing store give, and an
\* Update starts with the adapter's full retry budget and nothing read or
\* written, whatever calls ran before it.
AdapterImmutable ==
    /\ [][s' = s]_vars
    /\ [](/\ s.resource = Resource /\ s.subResources = << >>
          /\ s.DefaultQualifiedResource = GroupResource(Resource))
    /\ [][CallStepped => stopWatchesCh' = stopWatchesCh]_vars
    /\ [][(ret' # ret /\ ret'.op = "Get")
              => ret' = [op |-> "Get", ctx |-> ret'.ctx, name |-> ret'.name]
                           @@ StoreGet(store, ret'.ctx, ret'.name, Nil)]_vars
    /\ [][(ret' # ret /\ ret'.op = "List")
              => \E order \in Orders(MapKeys(s.labelSelector)) :
                     ret' = [op |-> "List", ctx |-> ret'.ctx, options |-> ret'.options]
                               @@ StoreList(store, ret'.ctx, ret'.options, order, Nil)]_vars
    /\ [][\A u \in Updaters :
              (upd[u].pc = "idle" /\ upd'[u].pc = "read")
                  => /\ upd'[u].steps = s.patchConflictRetryBackoff.Steps
                     /\ upd'[u].attempts = 1 /\ upd'[u].reads = 0 /\ upd'[u].writes = 0
                     /\ upd'[u].errs = << >> /\ upd'[u].oldObj = Nil]_vars

\* after two patch Updates, one of which spent a step of its budget on a retry,
\* the adapter's backoff is whole and a Get returned the object last written
AdapterImmutableWitness ==
    /\ upd["u1"].pc = "done" /\ upd["u1"].attempts = 2 /\ upd["u1"].err = Nil
    /\ upd["u2"].pc = "done" /\ upd["u2"].err = Nil
    /\ s.patchConflictRetryBackoff.Steps = 2
    /\ ret.op = "Get" /\ ret.obj = upd["u1"].result /\ ret.obj.rv = 3

\* what a watch is apart from its derived context and its goroutine
WatchApartFromCancel(w) ==
    [watches[w] EXCEPT !.watchCtx = "none", !.task = "none", !.cancelledBy = "none"]

\* C22: closing the stop channel changes no call; what follows from it is the
\* cancellation of the derived context of each Watch by its goroutine, a step
\* that changes nothing else: not the caller's context, not the backing store,
\* not a Get, List or Update.  With the stop channel closed a Get and a List
\* return what they return with it open, and an Update in progress goes on to
\* its read, its transform and its write and ends as the backing store decides.
StopAffectsOnlyWatches ==
    /\ [][stopWatchesCh' # stopWatchesCh
              => UNCHANGED << s, store, nextRV, ret, watches, upd >>]_vars
    /\ [][\A w \in Watchers :
              (watches[w].task = "waiting" /\ watches'[w].task = "exited")
                  => /\ WatchApartFromCancel(w)' = WatchApartFromCancel(w)
                     /\ UNCHANGED << s, stopWatchesCh, store, nextRV, ret, upd >>]_vars
    /\ [](\A w \in Watchers : watches[w].cancelledBy = "task" => stopWatchesCh = "closed")
    /\ [](ret.op \in {"Get", "List"} => (ret.err = Nil /\ ret.obj # Nil))
    /\ [](\A u \in Updaters :
              /\ upd[u].pc = "done" => (upd[u].err = Nil \/ IsConflict(upd[u].err))
              /\ upd[u].pc = "read" => ENABLED UpdateRead(u, Nil)
              /\ upd[u].pc = "modify" => ENABLED UpdateModify(u, 0, Nil)
              /\ upd[u].pc = "write" => ENABLED UpdateWrite(u, Nil))

\* the stop channel is closed and the watch cancelled by its goroutine, the
\* caller's context being live, while a patch Update that retried has succeeded
\* and a Get returned the object it wrote
StopAffectsOnlyWatchesWitness ==
    /\ stopWatchesCh = "closed"
    /\ watches["w1"].cancelledBy = "task" /\ ~watches["w1"].ctxDone
    /\ upd["u1"].pc = "done" /\ upd["u1"].err = Nil /\ upd["u1"].attempts = 2
    /\ ret.op = "Get" /\ ret.obj = upd["u1"].result

\* C23: whatever Steps the backoff has, zero and one too, a patch Update runs
\* doUpdate at least once, and one that returns no error made exactly one
\* successful backing write, the last of the call, and returns the object that
\* write produced.
AtLeastOneAttempt ==
    \A u \in Updaters :
        (upd[u].pc = "done" /\ Resolved(u) /\ IsPatch(upd[u].ctx))
            => /\ upd[u].attempts >= 1 /\ upd[u].reads >= 1
               /\ upd[u].err = Nil
                      => /\ upd[u].result # Nil /\ upd[u].writes >= 1
                         /\ upd[u].wrote # Nil /\ upd[u].wrote.err = Nil
                         /\ upd[u].result = upd[u].wrote.obj
                         /\ upd[u].writes = Len(upd[u].errs) + 1
                         /\ \A i \in DOMAIN upd[u].errs : IsConflict(upd[u].errs[i])

\* C23 holds of every backoff with at least one step.
AtLeastOneAttemptPositiveSteps == Budget >= 1 => AtLeastOneAttempt

\* two selector strings joined by a comma, either of which may be empty
JoinSelectors(a, b) ==
    IF a = << >> THEN b ELSE IF b = << >> THEN a ELSE a \o << Comma >> \o b

\* C24: the selector List and Watch send is the caller's clauses followed by the
\* label scope's key=value clauses, joined by commas, with no empty clause and
\* no leading or trailing comma, for every caller selector and label scope;
\* with an empty label scope it is the caller's selector unchanged.
WellFormedCombinedSelector ==
    (ret.op \in {"List", "Watch"} /\ Len(ret.calls) = 1)
        => LET sel == ret.calls[1].selector
               caller == SelectorString(ret.options.LabelSelector)
           IN /\ sel # << >> => \A i \in DOMAIN Clauses(sel) : WellFormedClause(Clauses(sel)[i])
              /\ \E order \in Orders(MapKeys(s.labelSelector)) :
                     sel = JoinSelectors(caller, toExpression(s.labelSelector, order))
              /\ MapLen(s.labelSelector) = 0 => sel = caller

\* C24 holds when the label scope has a key or the caller gave no selector.
WellFormedCombinedSelectorScoped ==
    (MapLen(s.labelSelector) > 0 \/ (ReadReturned /\ ret.op # "Get"
                                        /\ ret.options.LabelSelector = << >>))
        => WellFormedCombinedSelector

\* u's write is answered in this step
WriteStep(u) == upd[u].pc = "write" /\ upd'[u].writes = upd[u].writes + 1

\* C25: every successful backing write of an Update, patch or full, replaces
\* the very version its attempt read, however the Updates and the other
\* clients' writes interleave; when the object's version changed between the
\* attempt's read and its write, the write fails with a conflict and the
\* changed object stays as it is; a write for an object deleted meanwhile
\* fails too, and does not bring the object back.
NoLostUpdate ==
    /\ [][\A u \in Updaters :
              WriteStep(u)
                  => LET cur == store[upd[u].name] IN
                     IF cur # Nil /\ cur.rv = upd[u].oldObj.rv
                     THEN /\ cur = upd[u].oldObj
                          /\ upd'[u].wrote.err = Nil /\ upd'[u].overwritten = upd[u].oldObj
                          /\ store'[upd[u].name] = upd'[u].result
                          /\ upd'[u].result.rv > cur.rv
                     ELSE /\ upd'[u].wrote.err # Nil /\ store' = store
                          /\ cur # Nil => IsConflict(upd'[u].wrote.err)]_vars
    /\ [](\A u \in Updaters :
              (upd[u].pc = "done" /\ upd[u].err = Nil /\ upd[u].attempts >= 1)
                  => /\ upd[u].overwritten = upd[u].oldObj
                     /\ upd[u].overwritten.rv = upd[u].seen.obj.rv
                     /\ upd[u].result.rv > upd[u].overwritten.rv)

\* another client changed x between the read and the write of a full Update,
\* which failed with a conflict, and between those of the first attempt of a
\* patch Update, which then replaced the version its second attempt read
NoLostUpdateWitness ==
    /\ upd["u1"].pc = "done" /\ upd["u2"].pc = "done"
    /\ ~IsPatch(upd["u1"].ctx) /\ IsConflict(upd["u1"].err) /\ upd["u1"].oldObj.rv = 1
    /\ IsPatch(upd["u2"].ctx) /\ upd["u2"].err = Nil /\ upd["u2"].attempts = 2
    /\ upd["u2"].overwritten.rv = 2 /\ upd["u2"].result.rv = 3

\* the objects of the backing store that satisfy the label scope
InScope == {store[n] : n \in {m \in Names : store[m] # Nil
                                    /\ SatisfiesScope(s.labelSelector, store[m].labels)}}

\* the last call was a List that the backing client answered with a list
ListReturned == ret.op = "List" /\ Len(ret.calls) = 1 /\ ret.err = Nil

\* C26: every object of a List result and every object a Watch streams
\* satisfies the label scope; List returns the backing client's answer as it
\* is; and a List without a caller's selector returns exactly the objects of
\* the backing store that satisfy the scope.
ResultsRespectScope ==
    /\ [](ListReturned => \A o \in ret.obj.items : SatisfiesScope(s.labelSelector, o.labels))
    /\ []((ret.op = "List" /\ Len(ret.calls) = 1)
              => (ret.obj = ret.calls[1].reply.obj /\ ret.err = ret.calls[1].reply.err))
    /\ [](\A w \in Watchers :
              \A o \in watches[w].events : SatisfiesScope(s.labelSelector, o.labels))
    /\ [][(ret' # ret /\ ListReturned' /\ ret'.options.LabelSelector = << >>)
              => ret'.obj.items = InScope]_vars

\* the scope is env=prod, the store holds x with env=prod and y with env=dev, and
\* a List without a caller's selector returned x alone
ResultsRespectScopeWitness ==
    /\ s.labelSelector = EnvLabel("prod")
    /\ store["x"] # Nil /\ store["x"].labels = EnvLabel("prod")
    /\ store["y"] # Nil /\ store["y"].labels = EnvLabel("dev")
    /\ ListReturned /\ ret.options.LabelSelector = << >>
    /\ ret.obj.items = {store["x"]}

====
